---- MODULE Spec2Model ----
(***************************************************************************)
(* A model of three parts of the repository:                               *)
(*   - charts/DataTable.tsx: the sort state of the data table and the      *)
(*     ordering of its rows;                                               *)
(*   - scripts/indexToAlgolia.ts: the search indexing run;                 *)
(*   - charts/covidDataExplorer/CovidDataExplorer.tsx: the explorer's      *)
(*     controls, its deferred chart updates and the selection observer.    *)
(* Each part has its own variables and its own specification; the          *)
(* variables of the other parts stay at their initial values.              *)
(***************************************************************************)
EXTENDS Integers, Sequences, FiniteSets, TLC

VARIABLES
    \* DataTable
    storedState,     \* DataTable.storedState.sort
    tableRows,       \* transform.displayRows
    tableDims,       \* the dimensions of the chart that the transform works on
    lastSort,        \* history: the arguments and the effective state of the last updateSort
    clickStreak,     \* history: the header clicked last and how often in succession (SpecSort)
    \* indexToAlgolia
    ipc,             \* where the run of indexToAlgolia stands
    irun,            \* the number of runs started
    db,              \* the published posts in the database
    countries,       \* the number of countries in utils/countries
    dbRows, rowIdx, records, batchStart,   \* rows, the loop over them, records, i
    inFlight,        \* the remote requests sent and not yet answered
    tmpIndex, finalIndex,                  \* the indices 'pages_tmp' and 'pages'
    finalAtStart,    \* history: 'pages' when the current run started
    dbOpen,          \* the database connection
    opLog,           \* history: the steps of the current run
    \* CovidDataExplorer
    params,          \* this.props.params
    chart,           \* this.chart (props, url, loaded data)
    selectionChangeFromBuilder,
    timers,          \* the updateChart timers that have not fired yet
    suspended,       \* the _updateChart calls waiting at downloadData, by caller
    changes,         \* the number of user actions so far
    events,          \* history: the observer's calls during the last step
    chartTouched,    \* history: the user has changed the selection in the chart
    lastMetric,      \* history: the metric option chosen last
    owidVariableSet, \* owidVariableSet.variables: what was built, by variable id
    builds,          \* history: the number of variables built so far
    smoothedAdded,   \* _smoothedAdded
    newCasesSmoothed,\* the windows with which the column new_cases_smoothed was computed
    console          \* the number of lines logged to the console

tableVars == <<storedState, tableRows, tableDims, lastSort, clickStreak>>
indexVars == <<ipc, irun, db, countries, dbRows, rowIdx, records, batchStart, inFlight,
               tmpIndex, finalIndex, finalAtStart, dbOpen, opLog>>
variableVars == <<owidVariableSet, builds, smoothedAdded, newCasesSmoothed, console>>
explorerVars == <<params, chart, selectionChangeFromBuilder, timers, suspended,
                  changes, events, chartTouched, lastMetric, variableVars>>
vars == <<tableVars, indexVars, explorerVars>>

(***************************************************************************)
(* Part 1: DataTable                                                       *)
(***************************************************************************)

\* Bounds of the table's data: the number of rows and the largest finite value.
NumRows == 3
MaxVal == 1

\* The largest number of clicks on one header in succession.
MaxStreak == 3

ENTITY_DIM_INDEX == -1

Undefined == "undefined"

\* A cell value (Value.value): a finite number, or undefined, NaN, +-Infinity.
Num(n) == [k |-> "num", v |-> n]
Special(s) == [k |-> s, v |-> 0]
PosInfinity == Special("inf")
NegInfinity == Special("ninf")
CellValues == {Num(n) : n \in 0..MaxVal} \cup
              {Special(s) : s \in {"undefined", "nan", "inf", "ninf"}}

\* Two dimensions, the first with a single value column, the second with the
\* columns of a range. Indexed from 0 as in the code.
SingleColumn == [columns |-> <<"single">>]
RangeColumns == [columns |-> <<"start", "end">>]
TableDimensions == <<SingleColumn, RangeColumns>>

\* transform.dimensions and transform.dimensionsWithValues: the transform
\* pivots the rows into the display columns of each dimension, one entry per
\* dimension of the chart.
TransformDimensions == tableDims
DimensionsWithValues == [i \in 1..Len(tableDims) |-> tableDims[i]]
DimIndices == 0..(Len(TransformDimensions) - 1)
ColumnsOf(dimIndex) == DimensionsWithValues[dimIndex + 1].columns
RangeValueKey == {"start", "end", "delta", "deltaRatio"}

SeqToSet(s) == {s[i] : i \in 1..Len(s)}
Min(a, b) == IF a <= b THEN a ELSE b

DEFAULT_SORT_STATE == [dimIndex |-> ENTITY_DIM_INDEX, columnKey |-> Undefined, order |-> "asc"]

SameSortOrder(order) == order

inverseSortOrder(order) == IF order = "asc" THEN "desc" ELSE "asc"

StoredDimIndex == storedState.dimIndex

\* "make sure the index of the chosen column exists"
ClampedDimIndex == Min(storedState.dimIndex, Len(TransformDimensions) - 1)

\* dimensionsWithValues[dimIndex] is undefined: reading its columns throws
TypeError == "TypeError"
IsDimension(dimIndex) == dimIndex + 1 \in DOMAIN DimensionsWithValues

KeepStoredKey(columnKey, availableColumns) == columnKey

\* the column key sortState settles on for a data dimension
FallbackColumnKey(columnKey, availableColumns) ==
    IF columnKey = Undefined \/ columnKey \notin SeqToSet(availableColumns)
    THEN (IF availableColumns = <<>> THEN Undefined ELSE availableColumns[1])
    ELSE columnKey

\* The effective sort state derived from the stored one.
sortState ==
    LET dimIndex == ClampedDimIndex
        columnKey == storedState.columnKey
    IN  IF dimIndex # ENTITY_DIM_INDEX /\ ~ IsDimension(dimIndex)
        THEN [dimIndex |-> dimIndex, columnKey |-> TypeError, order |-> storedState.order]
        ELSE IF dimIndex # ENTITY_DIM_INDEX
        THEN [dimIndex |-> dimIndex,
              columnKey |-> FallbackColumnKey(columnKey, ColumnsOf(dimIndex)),
              order |-> storedState.order]
        ELSE [dimIndex |-> dimIndex, columnKey |-> columnKey, order |-> storedState.order]

WrittenBack == sortState

\* storedState.sort after sortState was derived: the getter works on a copy
\* ({...DEFAULT_SORT_STATE, ...this.storedState.sort})
StoredAfterDerivation == storedState

\* A row's value for one dimension (DimensionValue), or none.
NoValue == Special("undefined")
SingleValue(x) == [kind |-> "single", single |-> x, start |-> NoValue, end |-> NoValue]
RangeValue(s, e) == [kind |-> "range", single |-> NoValue, start |-> s, end |-> e]
NoDimensionValue == [kind |-> "none", single |-> NoValue, start |-> NoValue, end |-> NoValue]

\* The value the mapper reads from a row, before the "undefined last" rule.
RawValue(row, dimIndex, columnKey) ==
    LET dv == row.dimensionValues[dimIndex + 1]
    IN  IF dv.kind = "single" THEN dv.single
        ELSE IF dv.kind = "range" /\ columnKey # Undefined /\ columnKey \in RangeValueKey
             THEN (IF columnKey = "start" THEN dv.start
                   ELSE IF columnKey = "end" THEN dv.end
                   ELSE NoValue)
        ELSE NoValue

IsMissing(value) == value.k # "num"

UndefinedAlwaysInfinity(order) == PosInfinity

\* "We always want undefined values to be last"
UndefinedLast(order) == IF order = "asc" THEN PosInfinity ELSE NegInfinity

\* sortValueMapper for the given effective sort state; the entity's name is
\* modelled by its rank in string order.
SortValue(sort, row) ==
    IF sort.dimIndex = ENTITY_DIM_INDEX
    THEN Num(row.entity)
    ELSE LET value == RawValue(row, sort.dimIndex, sort.columnKey)
         IN  IF IsMissing(value) THEN UndefinedLast(sort.order) ELSE value

sortValueMapper(row) == SortValue(sortState, row)

\* Comparison of two sort values (numbers and +-Infinity), ascending.
Rank(a) == IF a.k = "ninf" THEN 0 ELSE IF a.k = "num" THEN 1 ELSE 2
LessThan(a, b) == Rank(a) < Rank(b) \/ (a.k = "num" /\ b.k = "num" /\ a.v < b.v)

BeforeIgnoringOrder(a, b, order) == LessThan(a, b)

\* a sorts strictly before b in the given order
Before(a, b, order) == IF order = "asc" THEN LessThan(a, b) ELSE LessThan(b, a)

\* orderBy(rows, mapper, [order]): a stable sort by the mapped value.
RECURSIVE InsertStable(_, _, _, _)
InsertStable(sorted, row, sort, order) ==
    IF sorted = <<>> THEN <<row>>
    ELSE LET last == sorted[Len(sorted)]
         IN  IF Before(SortValue(sort, row), SortValue(sort, last), order)
             THEN Append(InsertStable(SubSeq(sorted, 1, Len(sorted) - 1), row, sort, order), last)
             ELSE Append(sorted, row)

RECURSIVE orderBy(_, _, _)
orderBy(rows, sort, order) ==
    IF rows = <<>> THEN <<>>
    ELSE InsertStable(orderBy(SubSeq(rows, 1, Len(rows) - 1), sort, order),
                      rows[Len(rows)], sort, order)

displayRows == orderBy(tableRows, sortState, sortState.order)

\* dim.sortable of a display dimension: its header stands for its only column
\* (it spans the row of the subheaders when dim.columns.length < 2)
Sortable(dimIndex) == Len(ColumnsOf(dimIndex)) = 1

\* The headers the user can click, with the arguments each passes to updateSort.
HeaderClicks ==
    {[dimIndex |-> ENTITY_DIM_INDEX, columnKey |-> Undefined]} \cup
    {[dimIndex |-> d, columnKey |-> "single"] : d \in {i \in DimIndices : Sortable(i)}} \cup
    UNION {{[dimIndex |-> d, columnKey |-> ColumnsOf(d)[i]] : i \in 1..Len(ColumnsOf(d))}
           : d \in DimIndices}

NextOrderAlwaysAsc(sort, dimIndex, columnKey) == "asc"

NextOrder(sort, dimIndex, columnKey) ==
    IF sort.dimIndex = dimIndex /\ sort.columnKey = columnKey
    THEN inverseSortOrder(sort.order)
    ELSE "asc"

\* the streak of clicks after a click on the header with these arguments
SameHeader(dimIndex, columnKey) ==
    clickStreak.n > 0 /\ clickStreak.dimIndex = dimIndex /\ clickStreak.columnKey = columnKey
StreakAfter(dimIndex, columnKey, sort) ==
    IF SameHeader(dimIndex, columnKey)
    THEN [clickStreak EXCEPT !.n = @ + 1]
    ELSE [dimIndex |-> dimIndex, columnKey |-> columnKey, n |-> 1, before |-> sort]
NoStreak == [dimIndex |-> ENTITY_DIM_INDEX, columnKey |-> Undefined, n |-> 0,
             before |-> DEFAULT_SORT_STATE]

updateSort(dimIndex, columnKey) ==
    LET sort == sortState
        order == NextOrder(sort, dimIndex, columnKey)
    IN  /\ storedState' = [dimIndex |-> dimIndex, columnKey |-> columnKey, order |-> order]
        /\ lastSort' = [called |-> TRUE, dimIndex |-> dimIndex, columnKey |-> columnKey]
        /\ UNCHANGED <<tableRows, tableDims>>

UpdateSort ==
    /\ UNCHANGED <<indexVars, explorerVars>>
    /\ \E h \in HeaderClicks : updateSort(h.dimIndex, h.columnKey)
    /\ UNCHANGED clickStreak

\* a click on a header, with the streak of clicks kept
ClickHeader ==
    /\ UNCHANGED <<indexVars, explorerVars>>
    /\ \E h \in HeaderClicks :
          /\ SameHeader(h.dimIndex, h.columnKey) => clickStreak.n < MaxStreak
          /\ clickStreak' = StreakAfter(h.dimIndex, h.columnKey, sortState)
          /\ updateSort(h.dimIndex, h.columnKey)

\* The tables the model starts from: the entities in reverse or in rotated
\* order, one column holding any combination of cell values, the other cells
\* fixed (the first row has no value at all for the other dimension).
EntityOrders ==
    {[i \in 1..NumRows |-> NumRows + 1 - i],
     [i \in 1..NumRows |-> IF i = NumRows THEN 1 ELSE i + 1]}
OtherCell(i) == Num(0)
RowOf(i, entity, column, x) ==
    [entity |-> entity,
     dimensionValues |->
        <<IF column = "single" THEN SingleValue(x)
          ELSE IF i = 1 THEN NoDimensionValue ELSE SingleValue(OtherCell(i)),
          IF column = "start" THEN RangeValue(x, OtherCell(i))
          ELSE IF column = "end" THEN RangeValue(OtherCell(i), x)
          ELSE IF i = 1 THEN NoDimensionValue
          ELSE RangeValue(OtherCell(i), OtherCell(i))>>]
TableData ==
    {[i \in 1..NumRows |-> RowOf(i, p[i], c, f[i])] :
        p \in EntityOrders,
        c \in {"single", "start", "end"},
        f \in [1..NumRows -> CellValues]}

TableInit ==
    /\ storedState = DEFAULT_SORT_STATE
    /\ tableRows \in TableData
    /\ tableDims = TableDimensions
    /\ clickStreak = NoStreak
    /\ lastSort = [called |-> FALSE, dimIndex |-> ENTITY_DIM_INDEX, columnKey |-> Undefined]

\* ---- the table of a chart whose dimensions change ----

\* The largest number of dimensions of the chart.
MaxDims == 2

\* the lists of dimensions the chart can have
DimensionLists ==
    UNION {[1..n -> {SingleColumn, RangeColumns}] : n \in 0..MaxDims}

\* transform.displayRows for the given dimensions: the first row has no value
RowsFor(dims) ==
    [i \in 1..NumRows |->
        [entity |-> NumRows + 1 - i,
         dimensionValues |->
            [d \in 1..Len(dims) |->
                IF i = 1 THEN NoDimensionValue
                ELSE IF dims[d] = SingleColumn THEN SingleValue(Num(i % (MaxVal + 1)))
                ELSE RangeValue(Num(i % (MaxVal + 1)), Num((i + 1) % (MaxVal + 1)))]]]

\* the chart's dimensions change; the stored sort state is not touched
ChangeDimensions ==
    /\ UNCHANGED <<indexVars, explorerVars>>
    /\ \E dims \in DimensionLists \ {tableDims} :
          /\ tableDims' = dims
          /\ tableRows' = RowsFor(dims)
    /\ clickStreak' = NoStreak
    /\ UNCHANGED <<storedState, lastSort>>

\* the table is rendered: tableState and with it sortState are derived
Render ==
    /\ UNCHANGED <<indexVars, explorerVars>>
    /\ storedState' = StoredAfterDerivation
    /\ UNCHANGED <<tableRows, tableDims, lastSort, clickStreak>>

SortInit ==
    /\ storedState = DEFAULT_SORT_STATE
    /\ tableDims \in DimensionLists
    /\ tableRows = RowsFor(tableDims)
    /\ clickStreak = NoStreak
    /\ lastSort = [called |-> FALSE, dimIndex |-> ENTITY_DIM_INDEX, columnKey |-> Undefined]

(***************************************************************************)
(* Part 2: scripts/indexToAlgolia.ts                                       *)
(***************************************************************************)

\* Bounds: the runs of the script, the published posts, the countries.
MaxRuns == 2
MaxPosts == 2
NumCountries == 2

\* records.slice(i, i + 1000)
BatchSize == 1000

FinalIndexName == "pages"
TmpIndexName == "pages_tmp"

\* The record list is kept run-length encoded: a segment stands for the n
\* consecutive records of one owner whose objectIDs end in first .. first+n-1.
\* A country's record is a segment of one record.
CountryRecord(c) == [type |-> "country", owner |-> c, first |-> 0, n |-> 1]
ChunkRecords(row) == [type |-> "chunk", owner |-> row.ID, first |-> 0, n |-> row.chunks]

ChunkNumberStuck(k) == 0

\* let i = 0 before the chunks of a post, i += 1 after each: the value of i
\* at the chunk with k chunks of the post before it
ChunkNumber(k) == k

\* objectID: country.slug, or `${row.ID}-c${i}`
ObjectID(type, owner, i) ==
    IF type = "country" THEN [slug |-> owner] ELSE [ID |-> owner, c |-> i]

\* the objectIDs of the records of a segment
ObjectIDs(seg) ==
    {ObjectID(seg.type, seg.owner, ChunkNumber(k)) : k \in seg.first..(seg.first + seg.n - 1)}

RECURSIVE RecLen(_)
RecLen(segs) == IF segs = <<>> THEN 0 ELSE segs[1].n + RecLen(Tail(segs))

\* records.push of the segment's records
Push(segs, seg) == IF seg.n = 0 THEN segs ELSE Append(segs, seg)

\* the first k records of segs, and segs without them
RECURSIVE Take(_, _)
Take(segs, k) ==
    IF k <= 0 \/ segs = <<>> THEN <<>>
    ELSE IF segs[1].n <= k THEN <<segs[1]>> \o Take(Tail(segs), k - segs[1].n)
    ELSE <<[segs[1] EXCEPT !.n = k]>>
RECURSIVE Drop(_, _)
Drop(segs, k) ==
    IF k <= 0 \/ segs = <<>> THEN segs
    ELSE IF segs[1].n <= k THEN Drop(Tail(segs), k - segs[1].n)
    ELSE <<[segs[1] EXCEPT !.first = @ + k, !.n = @ - k]>> \o Tail(segs)

SliceInclusive(segs, lo, hi) == Take(Drop(segs, lo), hi - lo + 1)

\* records.slice(lo, hi)
Slice(segs, lo, hi) == Take(Drop(segs, lo), hi - lo)

\* The published posts the query can return: posts 1..k, each with a number of
\* text chunks that is 0, 1, a full batch, or what fills the first batch exactly.
ChunkCounts == {0, 1, BatchSize - NumCountries, BatchSize}

\* the lengths the list of countries can have
CountryCounts == {0, NumCountries}
DbSnapshots ==
    UNION {[1..k -> ChunkCounts] : k \in 0..MaxPosts}
RowsOf(snapshot) == [j \in DOMAIN snapshot |-> [ID |-> j, chunks |-> snapshot[j]]]

\* The index as the runs found it: the settings of 'pages' and the records of
\* an earlier deployment.
EmptyIndex == [settings |-> "none", writes |-> <<>>]
InitialFinalIndex ==
    [settings |-> "pages-settings",
     writes |-> <<[run |-> 0, segs |-> <<CountryRecord(1)>>]>>]

Issued(op, target, lo) == [op |-> op, phase |-> "issued", target |-> target, lo |-> lo]
Completed(op, target, lo) == [op |-> op, phase |-> "completed", target |-> target, lo |-> lo]
Failed(op, target, lo) == [op |-> op, phase |-> "failed", target |-> target, lo |-> lo]

\* indexToAlgolia() is started (line 79); one run at a time.
StartRun ==
    /\ UNCHANGED <<tableVars, explorerVars>>
    /\ ipc \in {"idle", "done", "aborted"}
    /\ irun < MaxRuns
    /\ irun' = irun + 1
    /\ ipc' = "copy"
    /\ dbRows' = <<>> /\ rowIdx' = 0 /\ records' = <<>> /\ batchStart' = 0
    /\ inFlight' = <<>> /\ opLog' = <<>> /\ dbOpen' = FALSE
    /\ finalAtStart' = finalIndex
    /\ UNCHANGED <<db, countries, tmpIndex, finalIndex>>

\* Between two runs the last post is unpublished: the query of the next run
\* (post_status = 'publish') no longer returns it.
PostUnpublished ==
    /\ UNCHANGED <<tableVars, explorerVars>>
    /\ ipc \in {"done", "aborted"}
    /\ irun < MaxRuns
    /\ db # <<>>
    /\ db' = SubSeq(db, 1, Len(db) - 1)
    /\ UNCHANGED <<ipc, irun, countries, dbRows, rowIdx, records, batchStart, inFlight,
                   tmpIndex, finalIndex, finalAtStart, dbOpen, opLog>>

\* await client.copyIndex(finalIndex.indexName, tmpIndex.indexName, [...])
CopyIndexSend ==
    /\ UNCHANGED <<tableVars, explorerVars>>
    /\ ipc = "copy"
    /\ ipc' = "copying"
    /\ inFlight' = Append(inFlight, Issued("copyIndex", TmpIndexName, 0))
    /\ opLog' = Append(opLog, Issued("copyIndex", TmpIndexName, 0))
    /\ UNCHANGED <<irun, db, countries, dbRows, rowIdx, records, batchStart, tmpIndex, finalIndex,
                   finalAtStart, dbOpen>>

\* the settings, synonyms and rules are copied, the records of pages_tmp stay
CopyIndexDone ==
    /\ UNCHANGED <<tableVars, explorerVars>>
    /\ ipc = "copying"
    /\ ipc' = "query"
    /\ inFlight' = <<>>
    /\ tmpIndex' = [tmpIndex EXCEPT !.settings = finalIndex.settings]
    /\ opLog' = Append(opLog, Completed("copyIndex", TmpIndexName, 0))
    /\ UNCHANGED <<irun, db, countries, dbRows, rowIdx, records, batchStart, finalIndex,
                   finalAtStart, dbOpen>>

PcAfterSwallowedFailure == "upload"

\* nothing catches a rejection: the run ends there
PcAfterFailure == "aborted"

\* a rejected await: the exception leaves indexToAlgolia, nothing catches it
Abort(op, target, lo) ==
    /\ ipc' = PcAfterFailure
    /\ inFlight' = <<>>
    /\ opLog' = Append(opLog, Failed(op, target, lo))

CopyIndexFail ==
    /\ UNCHANGED <<tableVars, explorerVars>>
    /\ ipc = "copying"
    /\ Abort("copyIndex", TmpIndexName, 0)
    /\ UNCHANGED <<irun, db, countries, dbRows, rowIdx, records, batchStart, tmpIndex, finalIndex,
                   finalAtStart, dbOpen>>

\* const rows = await wpdb.query(...), then one record per country
QueryDone ==
    /\ UNCHANGED <<tableVars, explorerVars>>
    /\ ipc = "query"
    /\ ipc' = "posts"
    /\ dbOpen' = TRUE
    /\ dbRows' = RowsOf(db)
    /\ rowIdx' = 0
    /\ records' = [c \in 1..countries |-> CountryRecord(c)]
    /\ opLog' = Append(opLog, Completed("query", "db", 0))
    /\ UNCHANGED <<irun, db, countries, batchStart, inFlight, tmpIndex, finalIndex, finalAtStart>>

QueryFail ==
    /\ UNCHANGED <<tableVars, explorerVars>>
    /\ ipc = "query"
    /\ Abort("query", "db", 0)
    /\ UNCHANGED <<irun, db, countries, dbRows, rowIdx, records, batchStart, tmpIndex, finalIndex,
                   finalAtStart, dbOpen>>

\* one iteration of the loop over the rows: getFullPost, formatPost, the chunks
PostDone ==
    /\ UNCHANGED <<tableVars, explorerVars>>
    /\ ipc = "posts"
    /\ rowIdx < Len(dbRows)
    /\ rowIdx' = rowIdx + 1
    /\ records' = Push(records, ChunkRecords(dbRows[rowIdx + 1]))
    /\ opLog' = Append(opLog, Completed("formatPost", "db", rowIdx))
    /\ UNCHANGED <<ipc, irun, db, countries, dbRows, batchStart, inFlight, tmpIndex, finalIndex,
                   finalAtStart, dbOpen>>

PostFail ==
    /\ UNCHANGED <<tableVars, explorerVars>>
    /\ ipc = "posts"
    /\ rowIdx < Len(dbRows)
    /\ Abort("formatPost", "db", rowIdx)
    /\ UNCHANGED <<irun, db, countries, dbRows, rowIdx, records, batchStart, tmpIndex, finalIndex,
                   finalAtStart, dbOpen>>

\* the loop over the rows ends; for (let i = 0; ...)
PostsEnd ==
    /\ UNCHANGED <<tableVars, explorerVars>>
    /\ ipc = "posts"
    /\ rowIdx = Len(dbRows)
    /\ ipc' = "upload"
    /\ batchStart' = 0
    /\ UNCHANGED <<irun, db, countries, dbRows, rowIdx, records, inFlight, tmpIndex, finalIndex,
                   finalAtStart, dbOpen, opLog>>

UploadToFinal == FinalIndexName

\* tmpIndex.saveObjects
UploadTarget == TmpIndexName

SaveObjectsNotAwaited == FALSE

\* await tmpIndex.saveObjects(...): the loop goes on when the request is answered
SaveObjectsAwaited == TRUE

\* await tmpIndex.saveObjects(records.slice(i, i+1000)): the request is sent
SaveObjectsSend ==
    /\ UNCHANGED <<tableVars, explorerVars>>
    /\ ipc = "upload"
    /\ batchStart < RecLen(records)
    /\ ipc' = IF SaveObjectsAwaited THEN "saving" ELSE "upload"
    /\ batchStart' = IF SaveObjectsAwaited THEN batchStart ELSE batchStart + BatchSize
    /\ inFlight' = Append(inFlight, Issued("saveObjects", UploadTarget, batchStart))
    /\ opLog' = Append(opLog, Issued("saveObjects", UploadTarget, batchStart))
    /\ UNCHANGED <<irun, db, countries, dbRows, rowIdx, records, tmpIndex, finalIndex,
                   finalAtStart, dbOpen>>

Write(index, run, segs) == [index EXCEPT !.writes = Append(@, [run |-> run, segs |-> segs])]

\* The records of an index: each objectID with the run that wrote it last
\* (saveObjects replaces the record that has the same objectID).
RECURSIVE IndexRecords(_)
IndexRecords(writes) ==
    IF writes = <<>> THEN {}
    ELSE LET last == writes[Len(writes)]
             ids == UNION {ObjectIDs(last.segs[s]) : s \in DOMAIN last.segs}
             before == IndexRecords(SubSeq(writes, 1, Len(writes) - 1))
         IN  {r \in before : r.objectID \notin ids} \cup
             {[objectID |-> id, run |-> last.run] : id \in ids}

\* the request in flight is applied to the index it names
Apply(req) ==
    LET segs == Slice(records, req.lo, req.lo + BatchSize)
    IN  /\ tmpIndex' = IF req.target = TmpIndexName THEN Write(tmpIndex, irun, segs) ELSE tmpIndex
        /\ finalIndex' = IF req.target = FinalIndexName THEN Write(finalIndex, irun, segs)
                         ELSE finalIndex

\* the awaited saveObjects resolves; i += 1000
SaveObjectsDone ==
    /\ UNCHANGED <<tableVars, explorerVars>>
    /\ ipc = "saving"
    /\ inFlight # <<>>
    /\ Apply(inFlight[1])
    /\ inFlight' = Tail(inFlight)
    /\ ipc' = "upload"
    /\ batchStart' = batchStart + BatchSize
    /\ opLog' = Append(opLog, Completed("saveObjects", inFlight[1].target, inFlight[1].lo))
    /\ UNCHANGED <<irun, db, countries, dbRows, rowIdx, records, finalAtStart, dbOpen>>

\* the awaited saveObjects rejects; the service may or may not have stored the batch
SaveObjectsFail ==
    /\ UNCHANGED <<tableVars, explorerVars>>
    /\ ipc = "saving"
    /\ inFlight # <<>>
    /\ \E stored \in BOOLEAN :
          IF stored THEN Apply(inFlight[1]) ELSE UNCHANGED <<tmpIndex, finalIndex>>
    /\ Abort("saveObjects", inFlight[1].target, inFlight[1].lo)
    /\ UNCHANGED <<irun, db, countries, dbRows, rowIdx, records, batchStart, finalAtStart, dbOpen>>

\* await client.moveIndex(tmpIndex.indexName, finalIndex.indexName)
MoveIndexSend ==
    /\ UNCHANGED <<tableVars, explorerVars>>
    /\ ipc = "upload"
    /\ batchStart >= RecLen(records)
    /\ ipc' = "moving"
    /\ inFlight' = Append(inFlight, Issued("moveIndex", FinalIndexName, 0))
    /\ opLog' = Append(opLog, Issued("moveIndex", FinalIndexName, 0))
    /\ UNCHANGED <<irun, db, countries, dbRows, rowIdx, records, batchStart, tmpIndex, finalIndex,
                   finalAtStart, dbOpen>>

\* pages_tmp replaces pages and no longer exists
MoveIndexDone ==
    /\ UNCHANGED <<tableVars, explorerVars>>
    /\ ipc = "moving"
    /\ ipc' = "end"
    /\ inFlight' = <<>>
    /\ finalIndex' = tmpIndex
    /\ tmpIndex' = EmptyIndex
    /\ opLog' = Append(opLog, Completed("moveIndex", FinalIndexName, 0))
    /\ UNCHANGED <<irun, db, countries, dbRows, rowIdx, records, batchStart, finalAtStart, dbOpen>>

MoveIndexFail ==
    /\ UNCHANGED <<tableVars, explorerVars>>
    /\ ipc = "moving"
    /\ Abort("moveIndex", FinalIndexName, 0)
    /\ UNCHANGED <<irun, db, countries, dbRows, rowIdx, records, batchStart, tmpIndex, finalIndex,
                   finalAtStart, dbOpen>>

\* wpdb.end()
DbEnd ==
    /\ UNCHANGED <<tableVars, explorerVars>>
    /\ ipc = "end"
    /\ ipc' = "done"
    /\ dbOpen' = FALSE
    /\ opLog' = Append(opLog, Completed("end", "db", 0))
    /\ UNCHANGED <<irun, db, countries, dbRows, rowIdx, records, batchStart, inFlight, tmpIndex,
                   finalIndex, finalAtStart>>

IndexInit ==
    /\ ipc = "idle" /\ irun = 0
    /\ db \in DbSnapshots
    /\ countries \in CountryCounts
    /\ dbRows = <<>> /\ rowIdx = 0 /\ records = <<>> /\ batchStart = 0
    /\ inFlight = <<>> /\ opLog = <<>> /\ dbOpen = FALSE
    /\ tmpIndex = EmptyIndex
    /\ finalIndex = InitialFinalIndex
    /\ finalAtStart = InitialFinalIndex

IndexNext ==
    \/ StartRun \/ PostUnpublished
    \/ CopyIndexSend \/ CopyIndexDone \/ CopyIndexFail
    \/ QueryDone \/ QueryFail
    \/ PostDone \/ PostFail \/ PostsEnd
    \/ SaveObjectsSend \/ SaveObjectsDone \/ SaveObjectsFail
    \/ MoveIndexSend \/ MoveIndexDone \/ MoveIndexFail
    \/ DbEnd

(***************************************************************************)
(* Part 3: charts/covidDataExplorer/CovidDataExplorer.tsx                  *)
(***************************************************************************)

\* Bounds: the user's actions in one session, and the chart updates a user can
\* have scheduled at once.
MaxChanges == 2
MaxPending == 2

\* The countries of props.data; for NoTestData there are no test figures.
Countries == {"USA", "GBR"}
NoTestData == {"GBR"}

Metrics == {"casesMetric", "deathsMetric", "cfrMetric", "testsMetric",
            "testsPerCaseMetric", "positiveTestRate"}

\* startingParams with the metrics of the set on
ParamsWith(metrics, selected) ==
    [casesMetric |-> "casesMetric" \in metrics,
     deathsMetric |-> "deathsMetric" \in metrics,
     cfrMetric |-> "cfrMetric" \in metrics,
     testsMetric |-> "testsMetric" \in metrics,
     testsPerCaseMetric |-> "testsPerCaseMetric" \in metrics,
     positiveTestRate |-> "positiveTestRate" \in metrics,
     totalFreq |-> TRUE, dailyFreq |-> FALSE, smoothing |-> 0,
     perCapita |-> FALSE, aligned |-> FALSE, hideControls |-> FALSE,
     selectedCountryCodes |-> selected]

\* this.props.params.constrainedParams; every option is taken to be available
constrainedParams(p) == p

\* ---- the computed values of the explorer, as functions of the params ----

perCapitaDivisor(p) == IF constrainedParams(p).testsMetric THEN 1000 ELSE 1000000

perCapitaOptions(n) ==
    IF n = 1 THEN "" ELSE IF n = 1000 THEN "per 1,000 people" ELSE "per million people"

perCapitaTitle(p) ==
    <<" ", perCapitaOptions(IF constrainedParams(p).perCapita THEN perCapitaDivisor(p) ELSE 1)>>

chartTitle(p) ==
    LET cp == constrainedParams(p)
        freq == IF cp.dailyFreq THEN "Daily new" ELSE "Cumulative"
        title ==
            IF cp.cfrMetric THEN <<"Case fatality rate of the ongoing COVID-19 pandemic">>
            ELSE IF cp.positiveTestRate
                 THEN <<"The share of ", IF cp.dailyFreq THEN "daily " ELSE "",
                        "COVID-19 tests that are positive">>
            ELSE IF cp.testsPerCaseMetric
                 THEN <<IF cp.totalFreq THEN "Cumulative tests" ELSE "Tests",
                        " conducted per confirmed case of COVID-19">>
            ELSE IF cp.testsMetric THEN <<freq, " COVID-19 tests">>
            ELSE IF cp.deathsMetric THEN <<freq, " confirmed COVID-19 deaths">>
            ELSE IF cp.casesMetric THEN <<freq, " confirmed COVID-19 cases">>
            ELSE <<"">>
    IN  title \o perCapitaTitle(p)

note(p) == IF constrainedParams(p).testsMetric THEN "For testing figures, ..." ELSE ""

AlwaysLineChart(p) == "LineChart"

chartType(p) == IF constrainedParams(p).aligned THEN "ScatterPlot" ELSE "LineChart"

\* buildCovidVariableId(columnName, perCapita, smoothing, daily): the id is
\* kept as the tuple of its parts
VariableId(columnName, perCapita, smoothing, daily) ==
    [name |-> columnName, perCapita |-> perCapita, smoothing |-> smoothing, daily |-> daily]
NoVariableId == [name |-> "none", perCapita |-> 0, smoothing |-> 0, daily |-> FALSE]

initVariableAndGetId(p, columnName, daily) ==
    VariableId(columnName,
               IF constrainedParams(p).perCapita THEN perCapitaDivisor(p) ELSE 1,
               constrainedParams(p).smoothing, daily)

yVariableId(p) ==
    LET cp == constrainedParams(p)
    IN  IF cp.testsMetric /\ cp.dailyFreq THEN initVariableAndGetId(p, "tests", TRUE)
        ELSE IF cp.testsMetric /\ cp.totalFreq THEN initVariableAndGetId(p, "tests", FALSE)
        ELSE IF cp.casesMetric /\ cp.dailyFreq THEN initVariableAndGetId(p, "cases", TRUE)
        ELSE IF cp.casesMetric /\ cp.totalFreq THEN initVariableAndGetId(p, "cases", FALSE)
        ELSE IF cp.deathsMetric /\ cp.dailyFreq THEN initVariableAndGetId(p, "deaths", TRUE)
        ELSE IF cp.deathsMetric /\ cp.totalFreq THEN initVariableAndGetId(p, "deaths", FALSE)
        ELSE IF cp.cfrMetric /\ cp.dailyFreq
             THEN initVariableAndGetId(p, "case_fatality_rate", TRUE)
        ELSE IF cp.cfrMetric /\ cp.totalFreq
             THEN initVariableAndGetId(p, "case_fatality_rate", FALSE)
        ELSE IF cp.testsPerCaseMetric /\ cp.dailyFreq
             THEN initVariableAndGetId(p, "tests_per_case", TRUE)
        ELSE IF cp.testsPerCaseMetric /\ cp.totalFreq
             THEN initVariableAndGetId(p, "tests_per_case", FALSE)
        ELSE IF cp.positiveTestRate /\ cp.dailyFreq
             THEN initVariableAndGetId(p, "positive_test_rate", TRUE)
        ELSE IF cp.positiveTestRate /\ cp.totalFreq
             THEN initVariableAndGetId(p, "positive_test_rate", FALSE)
        ELSE NoVariableId

\* the smoothing sentence, followed by the description of the y variable
subtitle(p) ==
    <<IF constrainedParams(p).smoothing # 0 THEN "Shown is the rolling 7-day average. " ELSE "",
      yVariableId(p)>>

\* the variable that the days-since variable is computed from
sourceId(p) ==
    LET cp == constrainedParams(p)
    IN  IF ~ cp.casesMetric
        THEN VariableId("deaths", IF cp.perCapita THEN 1000000 ELSE 1,
                        cp.smoothing, cp.dailyFreq)
        ELSE yVariableId(p)

\* parseInt([456, sourceId].join("")): kept as the source id under the tag 456
daysSinceVariableId(p) ==
    LET from == sourceId(p)
    IN  [name |-> "days_since", perCapita |-> from.perCapita,
         smoothing |-> from.smoothing, daily |-> from.daily, source |-> from.name]

continentsVariableId == 123

xVariableId(p) == IF chartType(p) = "LineChart" THEN Undefined ELSE daysSinceVariableId(p)

dimensions(p) ==
    IF chartType(p) = "LineChart"
    THEN <<[property |-> "y", variableId |-> yVariableId(p), name |-> chartTitle(p)]>>
    ELSE <<[property |-> "y", variableId |-> yVariableId(p), name |-> chartTitle(p)],
           [property |-> "x", variableId |-> xVariableId(p), name |-> <<"days since">>],
           [property |-> "color", variableId |-> continentsVariableId, name |-> <<>>]>>

\* ---- the variable set ----
\* st has the fields variables (owidVariableSet.variables), builds,
\* smoothedAdded, newCasesSmoothed and console.

\* variables: { 123: continentsVariable(this.countryOptions) }
\* The entries are kept in two maps: those under a number written in the
\* source, and those under a synthetic id made by buildCovidVariableId or
\* from the prefix 456.
InitialVariables ==
    [numbered |-> [id \in {continentsVariableId} |->
                      [columnName |-> "continents", rollingAverage |-> 0,
                       casesColumn |-> <<>>, serial |-> 0]],
     synthetic |-> <<>>]

AlwaysMissing(variables, id) == TRUE

\* !this.owidVariableSet.variables[id]
Missing(variables, id) == id \notin DOMAIN variables.synthetic

\* if (!variables[id]) variables[id] = ...: the variable is built and stored
\* only when none is stored under the id
StoreVariable(st, id, content) ==
    IF Missing(st.variables, id)
    THEN [st EXCEPT !.variables.synthetic =
                        [i \in DOMAIN @ \cup {id} |-> IF i = id THEN content ELSE @[i]],
                    !.builds = @ + 1]
    ELSE st

\* the rowFn handed to initVariableAndGetId reads row.new_cases_smoothed
ReadsNewCasesSmoothed(id) ==
    /\ id.daily
    /\ \/ id.name = "tests_per_case" /\ id.smoothing # 0
       \/ id.name = "positive_test_rate" /\ id.smoothing = 7

\* buildCovidVariable(id, columnName, ..., rowFn, perCapita,
\* alreadySmoothed ? 1 : smoothing, daily, ...): the window it is given and
\* the helper column its rowFn reads
buildCovidVariable(st, id) ==
    LET alreadySmoothed ==
            /\ id.name \in {"tests", "tests_per_case", "positive_test_rate"}
            /\ id.smoothing = 7
    IN  [columnName |-> id.name,
         rollingAverage |-> IF alreadySmoothed THEN 1 ELSE id.smoothing,
         casesColumn |-> IF ReadsNewCasesSmoothed(id) THEN st.newCasesSmoothed ELSE <<>>,
         serial |-> st.builds + 1]

NoInitVariable(st, id) == st

\* the effect of initVariableAndGetId on the variable set
initVariable(st, id) == StoreVariable(st, id, buildCovidVariable(st, id))

\* computeCovidColumn(..., 1, this.constrainedParams.smoothing), once
addNewCasesSmoothed(st) ==
    IF st.smoothedAdded THEN st
    ELSE [st EXCEPT !.newCasesSmoothed = Append(@, constrainedParams(st.params).smoothing),
                    !.smoothedAdded = TRUE]

\* what evaluating yVariableId does besides returning the id
yVariableIdEffects(st) ==
    LET cp == constrainedParams(st.params)
        id == yVariableId(st.params)
    IN  IF id = NoVariableId
        THEN [st EXCEPT !.console = @ + 1]
        ELSE IF \/ id.name = "tests_per_case" /\ id.daily /\ cp.smoothing # 0
                \/ id.name = "positive_test_rate" /\ id.daily
             THEN initVariable(addNewCasesSmoothed(st), id)
             ELSE initVariable(st, id)

\* what evaluating daysSinceVariableId does besides returning the id
daysSinceVariableIdEffects(st) ==
    LET st1 == yVariableIdEffects(st)
        from == sourceId(st.params)
        st2 == IF ~ constrainedParams(st.params).casesMetric THEN initVariable(st1, from) ELSE st1
    IN  StoreVariable(st2, daysSinceVariableId(st.params),
                      [columnName |-> "days_since", rollingAverage |-> 0,
                       casesColumn |-> <<>>, serial |-> st2.builds + 1])

\* subtitle and dimensions read yVariableId and, for a scatter plot, xVariableId
EvaluateVariableIds(st) ==
    IF chartType(st.params) = "LineChart"
    THEN yVariableIdEffects(st)
    ELSE daysSinceVariableIdEffects(yVariableIdEffects(st))

mapColorScheme(p) ==
    IF constrainedParams(p).testsMetric THEN "undefined"
    ELSE IF constrainedParams(p).casesMetric THEN "YlOrBr" ELSE "OrRd"

mapConfigs(p, current) ==
    IF constrainedParams(p).positiveTestRate THEN "positive_test_rate"
    ELSE IF constrainedParams(p).testsPerCaseMetric THEN "tests_per_case"
    ELSE current

\* the entities of selectedData, one per selected country code
selectedData(p) == p.selectedCountryCodes

\* this.props.params.toParams: the query parameters that encode the params
toParams(p) == p

\* ---- the chart ----

\* The entities the chart has data for, given the y variable it has loaded.
AvailableEntities(variableId) ==
    IF variableId.name = "none" THEN {}
    ELSE IF variableId.name \in {"tests", "tests_per_case", "positive_test_rate"}
         THEN Countries \ NoTestData
    ELSE Countries

\* chart.data.selectedEntityCodes: the selected entities the chart has data for
selectedEntityCodes(c) == c.selectedData \cap AvailableEntities(c.loaded)

\* new ChartConfig({...})
NewChart(p) ==
    [title |-> chartTitle(p), subtitle |-> subtitle(p), note |-> note(p), type |-> chartType(p),
     zoomToSelection |-> FALSE, dimensions |-> dimensions(p),
     mapVariableId |-> yVariableId(p), mapColorScheme |-> mapColorScheme(p),
     mapConfig |-> "default", selectedData |-> {}, externallyProvidedParams |-> <<>>,
     loaded |-> NoVariableId]

\* ---- the explorer's methods, as functions of its state st ----
\* st = [params, chart, flag (selectionChangeFromBuilder), timers, suspended, events]

FlipWhateverTheValue(selected, code, value) ==
    IF code \in selected THEN selected \ {code} ELSE selected \cup {code}

toggleSelectedCountry(selected, code, value) ==
    IF value = "true" THEN selected \cup {code}
    ELSE IF value = "false" THEN selected \ {code}
    ELSE IF code \in selected THEN selected \ {code}
    ELSE selected \cup {code}

\* codes.forEach(code => this.toggleSelectedCountry(code, value))
RECURSIVE ToggleAll(_, _, _)
ToggleAll(selected, codes, value) ==
    IF codes = {} THEN selected
    ELSE LET code == CHOOSE c \in codes : TRUE
         IN  ToggleAll(toggleSelectedCountry(selected, code, value), codes \ {code}, value)

RunsAtOnce == FALSE

\* setTimeout(..., 1): the update runs after the handler has returned
Deferred == TRUE

ClearAllButPositiveTestRate(p) ==
    [p EXCEPT !.casesMetric = FALSE, !.testsMetric = FALSE, !.deathsMetric = FALSE,
              !.cfrMetric = FALSE, !.testsPerCaseMetric = FALSE]

clearMetricsCommand(p) ==
    [p EXCEPT !.casesMetric = FALSE, !.testsMetric = FALSE, !.deathsMetric = FALSE,
              !.cfrMetric = FALSE, !.testsPerCaseMetric = FALSE, !.positiveTestRate = FALSE]

\* _updateChart up to the awaited downloadData
UpdateChartFirstHalf(st, kind) ==
    LET p == st.params
        c == st.chart
    IN  [EvaluateVariableIds(st) EXCEPT
            !.chart = [c EXCEPT !.title = chartTitle(p),
                                !.subtitle = subtitle(p),
                                !.note = note(p),
                                !.zoomToSelection =
                                    IF c.type = "LineChart" /\ chartType(p) = "ScatterPlot"
                                    THEN TRUE ELSE @,
                                !.type = chartType(p),
                                !.dimensions = dimensions(p)],
            !.suspended[kind] = @ + 1]

\* the callback of updateChart's timer
TimerCallback(st) == UpdateChartFirstHalf([st EXCEPT !.flag = TRUE], "scheduled")

updateChart(st) ==
    IF Deferred THEN [st EXCEPT !.timers = @ + 1] ELSE TimerCallback(st)

ReplaceSelection(selected, oldCodes, newCodes) == newCodes

\* the observer's update of the selection from the chart's old and new codes
ApplyChartSelection(selected, oldCodes, newCodes) ==
    LET added == newCodes \ oldCodes
        removed == oldCodes \ newCodes
    IN  ToggleAll(ToggleAll(selected, added, "true"), removed, "false")

\* the callback of observe(this.chart.data, "selectedEntityCodes", ...)
Observer(st, oldCodes, newCodes, origin) ==
    IF st.flag
    THEN [st EXCEPT !.flag = FALSE,
                    !.events = Append(@, [origin |-> origin, ignored |-> TRUE,
                                          oldCodes |-> oldCodes, newCodes |-> newCodes,
                                          before |-> st.params.selectedCountryCodes,
                                          after |-> st.params.selectedCountryCodes])]
    ELSE LET selected == ApplyChartSelection(st.params.selectedCountryCodes, oldCodes, newCodes)
         IN  updateChart([st EXCEPT
                 !.params.selectedCountryCodes = selected,
                 !.events = Append(@, [origin |-> origin, ignored |-> FALSE,
                                       oldCodes |-> oldCodes, newCodes |-> newCodes,
                                       before |-> st.params.selectedCountryCodes,
                                       after |-> selected])])

\* a change of the chart; the observer runs when selectedEntityCodes changed
ChangeChart(st, newChart, origin) ==
    LET oldCodes == selectedEntityCodes(st.chart)
        newCodes == selectedEntityCodes(newChart)
        st1 == [st EXCEPT !.chart = newChart]
    IN  IF oldCodes = newCodes THEN st1 ELSE Observer(st1, oldCodes, newCodes, origin)

\* _updateChart from the return of downloadData (the data of the chart's
\* dimensions is there) to its end
UpdateChartSecondHalf(st, kind) ==
    LET st0 == [st EXCEPT !.suspended[kind] = @ - 1]
        st1 == ChangeChart(st0, [st0.chart EXCEPT !.loaded = st0.chart.dimensions[1].variableId],
                           kind)
        st2 == [yVariableIdEffects(st1) EXCEPT
                           !.chart.mapVariableId = yVariableId(st1.params),
                           !.chart.mapColorScheme = mapColorScheme(st1.params),
                           !.chart.mapConfig = mapConfigs(st1.params, @)]
        st3 == ChangeChart(st2, [st2.chart EXCEPT !.selectedData = selectedData(st2.params)],
                           kind)
    IN  [st3 EXCEPT !.chart.externallyProvidedParams = toParams(st3.params)]

\* ---- the actions ----

KeepTotalFrequency(p, option) == p

setTotalFrequencyCommand(p, option) == [p EXCEPT !.totalFreq = option]

setDailyFrequencyCommand(p, option) == [p EXCEPT !.dailyFreq = option]

setSmoothingCommand(p, option) == [p EXCEPT !.smoothing = option]

\* the value a radio option hands to its onChange when it is chosen
Checked == TRUE

State == [params |-> params, chart |-> chart, flag |-> selectionChangeFromBuilder,
          timers |-> timers, suspended |-> suspended, events |-> <<>>,
          variables |-> owidVariableSet, builds |-> builds, smoothedAdded |-> smoothedAdded,
          newCasesSmoothed |-> newCasesSmoothed, console |-> console]

Becomes(st) ==
    /\ params' = st.params
    /\ chart' = st.chart
    /\ selectionChangeFromBuilder' = st.flag
    /\ timers' = st.timers
    /\ suspended' = st.suspended
    /\ events' = st.events
    /\ owidVariableSet' = st.variables
    /\ builds' = st.builds
    /\ smoothedAdded' = st.smoothedAdded
    /\ newCasesSmoothed' = st.newCasesSmoothed
    /\ console' = st.console

UserAction ==
    /\ changes < MaxChanges
    /\ timers < MaxPending
    /\ changes' = changes + 1

\* the onChange of one of the six metric options
MetricPicker ==
    /\ UNCHANGED <<tableVars, indexVars>>
    /\ UserAction
    /\ \E m \in Metrics :
          /\ Becomes(updateChart([State EXCEPT !.params =
                                     [clearMetricsCommand(params) EXCEPT ![m] = TRUE]]))
          /\ lastMetric' = m
    /\ UNCHANGED chartTouched

\* the onChange of "Cumulative"
CumulativeOption ==
    /\ UNCHANGED <<tableVars, indexVars>>
    /\ UserAction
    /\ Becomes(updateChart([State EXCEPT !.params =
          setSmoothingCommand(
              setDailyFrequencyCommand(
                  setTotalFrequencyCommand(params, Checked), FALSE), 0)]))
    /\ UNCHANGED <<chartTouched, lastMetric>>

\* the onChange of "7-day rolling average": updateChart() is called before the
\* frequencies are set
SevenDayOption ==
    /\ UNCHANGED <<tableVars, indexVars>>
    /\ UserAction
    /\ LET st1 == updateChart([State EXCEPT !.params = setSmoothingCommand(params, 7)])
       IN  Becomes([st1 EXCEPT !.params =
               setTotalFrequencyCommand(setDailyFrequencyCommand(st1.params, TRUE), FALSE)])
    /\ UNCHANGED <<chartTouched, lastMetric>>

\* the onChange of "New per day"
DailyOption ==
    /\ UNCHANGED <<tableVars, indexVars>>
    /\ UserAction
    /\ Becomes(updateChart([State EXCEPT !.params =
          setSmoothingCommand(
              setTotalFrequencyCommand(
                  setDailyFrequencyCommand(params, Checked), FALSE), 0)]))
    /\ UNCHANGED <<chartTouched, lastMetric>>

\* the onChange of the per capita checkbox
PerCapitaOption ==
    /\ UNCHANGED <<tableVars, indexVars>>
    /\ UserAction
    /\ \E value \in BOOLEAN :
          Becomes(updateChart([State EXCEPT !.params.perCapita = value]))
    /\ UNCHANGED <<chartTouched, lastMetric>>

\* the onChange of "Align outbreaks"
AlignedOption ==
    /\ UNCHANGED <<tableVars, indexVars>>
    /\ UserAction
    /\ \E value \in BOOLEAN :
          Becomes(updateChart([State EXCEPT !.params.aligned = value]))
    /\ UNCHANGED <<chartTouched, lastMetric>>

\* toggleSelectedCountryCommand(code, value), from the country picker
toggleSelectedCountryCommand(code, value) ==
    /\ UserAction
    /\ Becomes(updateChart([State EXCEPT !.params.selectedCountryCodes =
                               toggleSelectedCountry(@, code, value)]))
    /\ UNCHANGED <<chartTouched, lastMetric>>

ToggleSelectedCountryCommand ==
    /\ UNCHANGED <<tableVars, indexVars>>
    /\ \E code \in Countries, value \in {"true", "false", "undefined"} :
          toggleSelectedCountryCommand(code, value)

ClearSelectionCommand ==
    /\ UNCHANGED <<tableVars, indexVars>>
    /\ UserAction
    /\ Becomes(updateChart([State EXCEPT !.params.selectedCountryCodes = {}]))
    /\ UNCHANGED <<chartTouched, lastMetric>>

\* toggleControls: _updateChart is called directly
ToggleControls ==
    /\ UNCHANGED <<tableVars, indexVars>>
    /\ UserAction
    /\ suspended.direct < MaxPending
    /\ Becomes(UpdateChartFirstHalf([State EXCEPT !.params.hideControls = ~ @], "direct"))
    /\ UNCHANGED <<chartTouched, lastMetric>>

\* the user selects or deselects an entity in the chart itself
ChartSelection ==
    /\ UNCHANGED <<tableVars, indexVars>>
    /\ UserAction
    /\ \E code \in AvailableEntities(chart.loaded) :
          Becomes(ChangeChart(State, [chart EXCEPT !.selectedData =
                                         toggleSelectedCountry(@, code, "undefined")], "user"))
    /\ chartTouched' = TRUE
    /\ UNCHANGED lastMetric

\* the timer of an updateChart call fires
TimerFires ==
    /\ UNCHANGED <<tableVars, indexVars>>
    /\ timers > 0
    /\ Becomes(TimerCallback([State EXCEPT !.timers = @ - 1]))
    /\ UNCHANGED <<changes, chartTouched, lastMetric>>

\* the awaited downloadData of a suspended _updateChart returns
UpdateResumes ==
    /\ UNCHANGED <<tableVars, indexVars>>
    /\ \E kind \in {"scheduled", "direct"} :
          /\ suspended[kind] > 0
          /\ Becomes(UpdateChartSecondHalf(State, kind))
    /\ UNCHANGED <<changes, chartTouched, lastMetric>>

StartingParams ==
    {ParamsWith({m}, selected) : m \in {"casesMetric", "testsMetric"},
                                 selected \in {{}, Countries}}

\* the fields of a new explorer that the variable ids work on
NewExplorer(p) ==
    [params |-> p, variables |-> InitialVariables, builds |-> 0, smoothedAdded |-> FALSE,
     newCasesSmoothed |-> <<>>, console |-> 0]

\* the explorer after componentDidMount: the chart is built, the first
\* _updateChart waits for its data, the observer is registered
ExplorerInitWith(p) ==
    /\ params = p
    /\ chart = NewChart(p)
    /\ selectionChangeFromBuilder = FALSE
    /\ timers = 0
    /\ suspended = [scheduled |-> 0, direct |-> 1]
    /\ changes = 0
    /\ events = <<>>
    /\ chartTouched = FALSE
    /\ lastMetric = ""
    /\ LET built == EvaluateVariableIds(NewExplorer(p))
       IN  /\ owidVariableSet = built.variables
           /\ builds = built.builds
           /\ smoothedAdded = built.smoothedAdded
           /\ newCasesSmoothed = built.newCasesSmoothed
           /\ console = built.console

ExplorerInit == \E p \in StartingParams : ExplorerInitWith(p)

\* any combination of metric flags in the starting params
ExplorerInitAnyMetrics == \E metrics \in SUBSET Metrics : ExplorerInitWith(ParamsWith(metrics, {}))

ExplorerNext ==
    \/ MetricPicker \/ CumulativeOption \/ SevenDayOption \/ DailyOption
    \/ PerCapitaOption \/ AlignedOption
    \/ ToggleSelectedCountryCommand \/ ClearSelectionCommand \/ ToggleControls
    \/ ChartSelection
    \/ TimerFires \/ UpdateResumes

MetricNext == MetricPicker \/ TimerFires \/ UpdateResumes

\* The explorer opened on one of three metrics, cumulative or per day, with
\* no country selected; the controls that decide the variable ids are used.
VariableStartingParams ==
    {[ParamsWith({m}, {}) EXCEPT !.totalFreq = ~ daily, !.dailyFreq = daily] :
        m \in {"casesMetric", "testsPerCaseMetric", "positiveTestRate"}, daily \in BOOLEAN}

VariablesNext ==
    \/ MetricPicker \/ CumulativeOption \/ SevenDayOption \/ DailyOption
    \/ PerCapitaOption \/ AlignedOption
    \/ TimerFires \/ UpdateResumes

\* The table when another part of the repository is examined.
TableIdle ==
    /\ storedState = DEFAULT_SORT_STATE
    /\ tableRows = <<>>
    /\ tableDims = <<>>
    /\ clickStreak = NoStreak
    /\ lastSort = [called |-> FALSE, dimIndex |-> ENTITY_DIM_INDEX, columnKey |-> Undefined]

IndexIdle ==
    /\ ipc = "idle" /\ irun = 0 /\ db = <<>> /\ countries = 0
    /\ dbRows = <<>> /\ rowIdx = 0 /\ records = <<>> /\ batchStart = 0
    /\ inFlight = <<>> /\ opLog = <<>> /\ dbOpen = FALSE
    /\ tmpIndex = EmptyIndex
    /\ finalIndex = InitialFinalIndex
    /\ finalAtStart = InitialFinalIndex

ExplorerIdle ==
    /\ params = <<>> /\ chart = <<>> /\ selectionChangeFromBuilder = FALSE
    /\ timers = 0 /\ suspended = <<>> /\ changes = 0 /\ events = <<>>
    /\ chartTouched = FALSE /\ lastMetric = ""
    /\ owidVariableSet = InitialVariables /\ builds = 0 /\ smoothedAdded = FALSE
    /\ newCasesSmoothed = <<>> /\ console = 0

InitOfIndex == TableIdle /\ IndexInit /\ ExplorerIdle
SpecIndex == InitOfIndex /\ [][IndexNext]_vars

InitOfExplorer == TableIdle /\ IndexIdle /\ ExplorerInit
SpecExplorer == InitOfExplorer /\ [][ExplorerNext]_vars

InitOfMetrics == TableIdle /\ IndexIdle /\ ExplorerInitAnyMetrics
SpecMetrics == InitOfMetrics /\ [][MetricNext]_vars

\* A new explorer with any combination of metric flags, frequencies,
\* smoothing and per capita, before its chart is built.
AnyParams ==
    {[ParamsWith(metrics, {}) EXCEPT !.totalFreq = total, !.dailyFreq = daily,
                                     !.smoothing = smoothing, !.perCapita = perCapita] :
        metrics \in SUBSET Metrics, total \in BOOLEAN, daily \in BOOLEAN,
        smoothing \in {0, 7}, perCapita \in BOOLEAN}

\* the fields that the variable ids work on, from and to the variables
VariableState ==
    [params |-> params, variables |-> owidVariableSet, builds |-> builds,
     smoothedAdded |-> smoothedAdded, newCasesSmoothed |-> newCasesSmoothed,
     console |-> console]

VariablesBecome(st) ==
    /\ owidVariableSet' = st.variables
    /\ builds' = st.builds
    /\ smoothedAdded' = st.smoothedAdded
    /\ newCasesSmoothed' = st.newCasesSmoothed
    /\ console' = st.console

\* this.yVariableId is read
ReadYVariableId ==
    /\ UNCHANGED <<tableVars, indexVars>>
    /\ changes < MaxChanges
    /\ changes' = changes + 1
    /\ VariablesBecome(yVariableIdEffects(VariableState))
    /\ UNCHANGED <<params, chart, selectionChangeFromBuilder, timers, suspended, events,
                   chartTouched, lastMetric>>

\* this.daysSinceVariableId is read; there is a source variable
ReadDaysSinceVariableId ==
    /\ UNCHANGED <<tableVars, indexVars>>
    /\ changes < MaxChanges
    /\ sourceId(params) # NoVariableId
    /\ changes' = changes + 1
    /\ VariablesBecome(daysSinceVariableIdEffects(VariableState))
    /\ UNCHANGED <<params, chart, selectionChangeFromBuilder, timers, suspended, events,
                   chartTouched, lastMetric>>

YVariableNext == ReadYVariableId \/ ReadDaysSinceVariableId

InitOfYVariable ==
    /\ TableIdle /\ IndexIdle
    /\ params \in AnyParams
    /\ chart = <<>> /\ selectionChangeFromBuilder = FALSE
    /\ timers = 0 /\ suspended = <<>> /\ changes = 0 /\ events = <<>>
    /\ chartTouched = FALSE /\ lastMetric = ""
    /\ owidVariableSet = InitialVariables /\ builds = 0 /\ smoothedAdded = FALSE
    /\ newCasesSmoothed = <<>> /\ console = 0
SpecYVariable == InitOfYVariable /\ [][YVariableNext]_vars

InitOfVariables ==
    TableIdle /\ IndexIdle /\ \E p \in VariableStartingParams : ExplorerInitWith(p)
SpecVariables == InitOfVariables /\ [][VariablesNext]_vars

InitOfSort == SortInit /\ IndexIdle /\ ExplorerIdle
SortNext == ClickHeader \/ ChangeDimensions \/ Render
SpecSort == InitOfSort /\ [][SortNext]_vars

InitOfTable == TableInit /\ IndexIdle /\ ExplorerIdle
TableNext == UpdateSort
SpecTable == InitOfTable /\ [][TableNext]_vars

(***************************************************************************)
(* Claims about the DataTable                                              *)
(***************************************************************************)

\* non-decreasing sort values for asc, non-increasing for desc
IsSorted(rows, sort) ==
    \A i \in 1..(Len(rows) - 1) :
        IF sort.order = "asc"
        THEN ~ LessThan(SortValue(sort, rows[i + 1]), SortValue(sort, rows[i]))
        ELSE ~ LessThan(SortValue(sort, rows[i]), SortValue(sort, rows[i + 1]))

\* the number of times row r occurs in rows
Count(rows, r) == Cardinality({i \in 1..Len(rows) : rows[i] = r})

\* C1: after any sequence of updateSort calls, displayRows holds exactly the rows
\* of transform.displayRows (nothing added, dropped or duplicated), non-decreasing
\* in the sort value of the effective sort column when the effective order is asc
\* and non-increasing when it is desc; for the entity column the sort value is
\* the entity's name.
C1_DisplayRowsSorted ==
    /\ Len(displayRows) = Len(tableRows)
    /\ \A i \in 1..Len(tableRows) : Count(displayRows, tableRows[i]) = Count(tableRows, tableRows[i])
    /\ IsSorted(displayRows, sortState)
    /\ sortState.dimIndex = ENTITY_DIM_INDEX =>
          \A i \in 1..(Len(displayRows) - 1) :
              IF sortState.order = "asc"
              THEN displayRows[i].entity <= displayRows[i + 1].entity
              ELSE displayRows[i].entity >= displayRows[i + 1].entity

\* a descending sort by a data column has reordered the rows
C1_Witness ==
    /\ lastSort.called
    /\ sortState.dimIndex # ENTITY_DIM_INDEX
    /\ sortState.order = "desc"
    /\ displayRows # tableRows
    /\ \E i \in 1..(NumRows - 1) :
          LessThan(sortValueMapper(displayRows[i + 1]), sortValueMapper(displayRows[i]))

HasFinite(row, sort) == ~ IsMissing(RawValue(row, sort.dimIndex, sort.columnKey))

\* C2: when the table is sorted by a dimension column, ascending or descending,
\* every row whose value in that column is undefined, NaN or not finite comes
\* after every row that has a finite value in it.
C2_MissingValuesLast ==
    sortState.dimIndex # ENTITY_DIM_INDEX =>
        \A i, j \in 1..Len(displayRows) :
            (HasFinite(displayRows[i], sortState) /\ ~ HasFinite(displayRows[j], sortState))
                => i < j

\* a descending sort in which a row without a value was moved behind a row with one
C2_Witness ==
    /\ sortState.dimIndex # ENTITY_DIM_INDEX
    /\ sortState.order = "desc"
    /\ ~ HasFinite(tableRows[1], sortState)
    /\ HasFinite(tableRows[2], sortState)
    /\ \E j \in 1..NumRows : RawValue(tableRows[j], sortState.dimIndex, sortState.columnKey).k = "nan"
    /\ \E j \in 1..NumRows : RawValue(tableRows[j], sortState.dimIndex, sortState.columnKey).k = "inf"

\* C3: a new DataTable is sorted by the entity column, ascending, with no column
\* key; updateSort(dimIndex, columnKey) stores its arguments and sets the order to
\* the inverse of the effective order when both arguments equal the effective
\* sort state's, and to ascending in every other case.
C3_UpdateSortOrder ==
    /\ storedState = [dimIndex |-> ENTITY_DIM_INDEX, columnKey |-> Undefined, order |-> "asc"]
    /\ [][/\ storedState'.dimIndex = lastSort'.dimIndex
          /\ storedState'.columnKey = lastSort'.columnKey
          /\ storedState'.order =
                IF sortState.dimIndex = lastSort'.dimIndex
                   /\ sortState.columnKey = lastSort'.columnKey
                THEN (IF sortState.order = "asc" THEN "desc" ELSE "asc")
                ELSE "asc"]_tableVars

\* a second click on the same sub-column header has inverted the order
C3_Witness ==
    /\ lastSort.called
    /\ storedState.dimIndex = 1
    /\ storedState.columnKey = "end"
    /\ storedState.order = "desc"

(***************************************************************************)
(* Claims about the indexing run                                           *)
(***************************************************************************)

LogIdx == DOMAIN opLog
IsIssued(j, op) == opLog[j].op = op /\ opLog[j].phase = "issued"
IsCompleted(j, op) == opLog[j].op = op /\ opLog[j].phase = "completed"

\* C4: the remote operations of a run happen in a fixed order: the settings of
\* 'pages' are copied to 'pages_tmp' before any record is uploaded; every
\* saveObjects goes to 'pages_tmp' and is completed before moveIndex is issued;
\* moveIndex (to 'pages') is issued once, after the last upload; the database
\* connection is closed only after moveIndex has completed.
C4_RemoteOperationsInOrder ==
    /\ \A j \in LogIdx : IsIssued(j, "saveObjects") =>
          /\ opLog[j].target = TmpIndexName
          /\ \E i \in 1..(j - 1) : IsCompleted(i, "copyIndex") /\ opLog[i].target = TmpIndexName
    /\ (ipc \in {"upload", "saving", "moving"}) => tmpIndex.settings = finalAtStart.settings
    /\ \A j \in LogIdx : IsIssued(j, "moveIndex") =>
          /\ opLog[j].target = FinalIndexName
          /\ \A i \in LogIdx : IsIssued(i, "saveObjects") =>
                /\ i < j
                /\ \E k \in (i + 1)..(j - 1) :
                      IsCompleted(k, "saveObjects") /\ opLog[k].lo = opLog[i].lo
          /\ \A i \in 0..((RecLen(records) - 1) \div BatchSize) :
                RecLen(records) > 0 =>
                    \E k \in 1..(j - 1) : IsCompleted(k, "saveObjects") /\ opLog[k].lo = i * BatchSize
    /\ Cardinality({j \in LogIdx : IsIssued(j, "moveIndex")}) <= 1
    /\ (ipc \in {"end", "done"}) => \E j \in LogIdx : IsCompleted(j, "moveIndex")
    /\ \A j \in LogIdx : IsCompleted(j, "end") =>
          \E i \in 1..(j - 1) : IsCompleted(i, "moveIndex")
    /\ ((\E j \in LogIdx : IsCompleted(j, "query")) /\ ~ dbOpen) =>
          \E i \in LogIdx : IsCompleted(i, "moveIndex")

\* a run has ended after three uploads
C4_Witness ==
    /\ ipc = "done"
    /\ ~ dbOpen
    /\ Cardinality({j \in LogIdx : IsCompleted(j, "saveObjects")}) = 3
    /\ finalIndex # finalAtStart

AwaitedSteps == {"copyIndex", "query", "formatPost", "saveObjects"}

\* C5: when copying the settings, the query, the formatting of a post or a
\* saveObjects batch fails, the run stops there: the failure is the last step of
\* the run, no request is repeated, moveIndex is not issued and 'pages' is as it
\* was when the run started.
C5_FailureAbortsRun ==
    /\ \A j \in LogIdx : opLog[j].phase = "failed" =>
          /\ j = Len(opLog)
          /\ ipc = "aborted"
          /\ inFlight = <<>>
          /\ opLog[j].op \in AwaitedSteps =>
                /\ ~ \E i \in LogIdx : opLog[i].op = "moveIndex"
                /\ finalIndex = finalAtStart
    /\ \A i, j \in LogIdx :
          (i # j /\ opLog[i].phase = "issued" /\ opLog[j].phase = "issued")
              => <<opLog[i].op, opLog[i].lo>> # <<opLog[j].op, opLog[j].lo>>

\* the second batch of a run failed after the first was stored
C5_Witness ==
    /\ ipc = "aborted"
    /\ opLog[Len(opLog)] = Failed("saveObjects", TmpIndexName, BatchSize)
    /\ Len(tmpIndex.writes) >= 1
    /\ irun = 2

\* C6: the uploads are sequential: at most one saveObjects request is in flight,
\* and a batch is sent only after every earlier batch, the previous one
\* included, has completed successfully.
C6_UploadsSequential ==
    /\ Cardinality({j \in DOMAIN inFlight : inFlight[j].op = "saveObjects"}) <= 1
    /\ \A j \in LogIdx : IsIssued(j, "saveObjects") =>
          /\ opLog[j].lo > 0 =>
                \E i \in 1..(j - 1) :
                    IsCompleted(i, "saveObjects") /\ opLog[i].lo = opLog[j].lo - BatchSize
          /\ \A i \in 1..(j - 1) : IsIssued(i, "saveObjects") =>
                \E k \in (i + 1)..(j - 1) :
                    IsCompleted(k, "saveObjects") /\ opLog[k].lo = opLog[i].lo

\* the third batch is in flight
C6_Witness ==
    /\ ipc = "saving"
    /\ Len(inFlight) = 1
    /\ inFlight[1] = Issued("saveObjects", TmpIndexName, 2 * BatchSize)

(***************************************************************************)
(* Claims about the explorer                                               *)
(***************************************************************************)

NoneSuspended == suspended.scheduled = 0 /\ suspended.direct = 0

\* no timer is pending and no _updateChart is waiting for its data
Quiescent == timers = 0 /\ NoneSuspended

\* C7: after the handler of a metric option has run, the flag of that option
\* is true and the other five metric flags are false.
C7_ExactlyOneMetric ==
    lastMetric # "" => \A m \in Metrics : params[m] = (m = lastMetric)

\* a second option was chosen after a first one, and the chart has caught up
C7_Witness ==
    /\ lastMetric = "testsMetric"
    /\ changes = 2
    /\ params.testsMetric
    /\ Quiescent

\* what the observer has to do with a change from oldCodes to newCodes
Applied(e) ==
    e.after = (e.before \ (e.oldCodes \ e.newCodes)) \cup (e.newCodes \ e.oldCodes)

\* C8: a change of the chart's selection that comes from a scheduled update is
\* ignored by the observer, and a change the user makes in the chart itself is
\* not ignored but applied to params.selectedCountryCodes.
C8_BuilderIgnoredUserApplied ==
    \A i \in 1..Len(events) :
        /\ events[i].origin = "scheduled" => events[i].ignored
        /\ events[i].origin = "user" => ~ events[i].ignored /\ Applied(events[i])

\* C9: when the observer processes a change from oldCodes to newCodes, the
\* codes that were added get selected, the codes that were removed get
\* deselected, and every other selected country stays selected.
C9_ObserverAppliesDifference ==
    \A i \in 1..Len(events) :
        ~ events[i].ignored =>
            /\ Applied(events[i])
            /\ \A c \in events[i].before \ (events[i].oldCodes \cup events[i].newCodes) :
                  c \in events[i].after

\* the user's change in the chart is processed while a country without data
\* in the chart is selected in the explorer
C9_Witness ==
    \E i \in 1..Len(events) :
        /\ ~ events[i].ignored
        /\ events[i].origin = "user"
        /\ events[i].before \ (events[i].oldCodes \cup events[i].newCodes) # {}

\* C10: after a sequence of control changes, once every timer has fired and
\* every _updateChart has finished, the chart's title, type, dimensions, map
\* variable, selected data and url params are the ones derived from the
\* current params.
C10_ChartFollowsParams ==
    (Quiescent /\ ~ chartTouched) =>
        /\ chart.title = chartTitle(params)
        /\ chart.type = chartType(params)
        /\ chart.dimensions = dimensions(params)
        /\ chart.mapVariableId = yVariableId(params)
        /\ chart.selectedData = selectedData(params)
        /\ chart.externallyProvidedParams = toParams(params)

\* two control changes, among them the 7-day option, and the chart at rest
C10_Witness ==
    /\ Quiescent
    /\ ~ chartTouched
    /\ changes = 2
    /\ params.smoothing = 7
    /\ params.selectedCountryCodes # {}

\* a step in which _updateChart runs up to its await
UpdateChartFirstHalfRuns == TimerFires \/ ToggleControls

\* the type and the dimensions as the claim describes them
TypeAndDimensionsOf(p) ==
    /\ chartType(p) = "ScatterPlot" <=> constrainedParams(p).aligned
    /\ chartType(p) = "LineChart" <=> ~ constrainedParams(p).aligned
    /\ chartType(p) = "LineChart" =>
          /\ xVariableId(p) = Undefined
          /\ Len(dimensions(p)) = 1
          /\ dimensions(p)[1].property = "y"
          /\ dimensions(p)[1].variableId = yVariableId(p)
    /\ chartType(p) = "ScatterPlot" =>
          /\ Len(dimensions(p)) = 3
          /\ dimensions(p)[1].property = "y"
          /\ dimensions(p)[1].variableId = yVariableId(p)
          /\ dimensions(p)[2].property = "x"
          /\ dimensions(p)[2].variableId = daysSinceVariableId(p)
          /\ dimensions(p)[3].property = "color"
          /\ dimensions(p)[3].variableId = 123

\* C11 as stated: the type is ScatterPlot exactly when aligned, the dimensions
\* are y alone for a LineChart and y, x (days since), color (continents, 123)
\* for a ScatterPlot, and after each completed _updateChart the chart's type
\* is the current chartType.
C11_TypeAfterEveryUpdate ==
    /\ [](TypeAndDimensionsOf(params))
    /\ [][UpdateResumes => chart'.type = chartType(params')]_vars

\* C11, amended: as above, but the chart's type is the current chartType after
\* a completed _updateChart only when no later updateChart call is still
\* waiting for its timer; an update that completes while one is waiting leaves
\* the type it read before it awaited its data.
C11_TypeAndDimensions ==
    /\ [](TypeAndDimensionsOf(params))
    /\ [][(UpdateResumes /\ timers' = 0) => chart'.type = chartType(params')]_vars
    /\ [][UpdateChartFirstHalfRuns => chart'.type = chartType(params')]_vars

\* a scatter plot with its three dimensions, after the updates have completed
C11_Witness ==
    /\ Quiescent
    /\ params.aligned
    /\ chart.type = "ScatterPlot"
    /\ Len(chart.dimensions) = 3
    /\ chart.dimensions[2].variableId = daysSinceVariableId(params)

(***************************************************************************)
(* Claims about the sort state when the dimensions change                  *)
(***************************************************************************)

C13_EffectiveColumnKey ==
    /\ [](sortState.dimIndex # ENTITY_DIM_INDEX =>
            LET keys == SeqToSet(ColumnsOf(sortState.dimIndex))
            IN  /\ sortState.columnKey \in keys
                /\ storedState.columnKey \in keys => sortState.columnKey = storedState.columnKey
                /\ storedState.columnKey \notin keys =>
                      sortState.columnKey = ColumnsOf(sortState.dimIndex)[1])
    /\ [][Render => storedState' = storedState]_vars

\* the stored key is not a column of the effective dimension, whose first
\* column is taken instead
C13_Witness ==
    /\ lastSort.called
    /\ storedState.columnKey = "single"
    /\ sortState.dimIndex # ENTITY_DIM_INDEX
    /\ sortState.dimIndex # storedState.dimIndex
    /\ sortState.columnKey = "start"

\* the header of the streak was the effective sort column before its first click
WasSortColumn ==
    /\ clickStreak.before.dimIndex = clickStreak.dimIndex
    /\ clickStreak.before.columnKey = clickStreak.columnKey

SortedByStreakHeader ==
    /\ sortState.dimIndex = clickStreak.dimIndex
    /\ sortState.columnKey = clickStreak.columnKey

RunWrites ==
    LET index == IF ipc \in {"end", "done"} THEN finalIndex ELSE tmpIndex
    IN  SelectSeq(index.writes, LAMBDA w : w.run = irun)

\* the record at position i (from 0) of a record list
RECURSIVE RecordAt(_, _)
RecordAt(segs, i) ==
    IF i < segs[1].n
    THEN [type |-> segs[1].type, owner |-> segs[1].owner, number |-> segs[1].first + i]
    ELSE RecordAt(Tail(segs), i - segs[1].n)

RECURSIVE Flatten(_)
Flatten(writes) == IF writes = <<>> THEN <<>> ELSE writes[1].segs \o Flatten(Tail(writes))

\* a record list with the pieces of one owner's records joined again
RECURSIVE Joined(_)
Joined(segs) ==
    IF Len(segs) < 2 THEN segs
    ELSE LET rest == Joined(Tail(segs))
             a == segs[1]
             b == rest[1]
         IN  IF a.type = b.type /\ a.owner = b.owner /\ b.first = a.first + a.n
             THEN <<[a EXCEPT !.n = a.n + b.n]>> \o Tail(rest)
             ELSE <<a>> \o rest

\* the number of chunks of the posts before post j, and of all posts
RECURSIVE ChunksBefore(_, _)
ChunksBefore(snapshot, j) ==
    IF j <= 1 THEN 0 ELSE snapshot[j - 1] + ChunksBefore(snapshot, j - 1)
TotalChunks(snapshot) == ChunksBefore(snapshot, Len(snapshot) + 1)

\* the numbers of chunks of the rows that the query of the run returned
Queried == [j \in DOMAIN dbRows |-> dbRows[j].chunks]

UploadsIssued ==
    Cardinality({i \in 1..Len(opLog) : IsIssued(i, "saveObjects")})

\* C15: the k-th saveObjects call holds the records 1000k .. 1000k+999 of the
\* record list in their order, every batch has between 1 and 1000 records,
\* every record is uploaded exactly once, there are ceil(n/1000) calls, and
\* none when there are no records.
C15_BatchesPartitionRecords ==
    LET n == RecLen(records)
        W == RunWrites
    IN  /\ \A k \in 1..Len(W) :
              LET lo == BatchSize * (k - 1)
                  len == RecLen(W[k].segs)
              IN  /\ len >= 1 /\ len <= BatchSize
                  /\ len = Min(BatchSize, n - lo)
                  /\ RecordAt(W[k].segs, 0) = RecordAt(records, lo)
                  /\ RecordAt(W[k].segs, len - 1) = RecordAt(records, lo + len - 1)
        /\ Joined(Flatten(W)) = Joined(Take(records, RecLen(Flatten(W))))
        /\ ipc \in {"moving", "end", "done"} =>
              /\ Joined(Flatten(W)) = records
              /\ Len(W) = (n + BatchSize - 1) \div BatchSize
              /\ UploadsIssued = Len(W)
        /\ n = 0 => UploadsIssued = 0
        /\ ipc \in {"upload", "saving", "moving", "end", "done"} =>
              /\ n = countries + TotalChunks(Queried)
              /\ \A c \in 1..countries :
                    RecordAt(records, c - 1) = [type |-> "country", owner |-> c, number |-> 0]
              /\ \A j \in DOMAIN Queried :
                 \A m \in {x \in {0, Queried[j] - 1} : x >= 0 /\ x < Queried[j]} :
                    RecordAt(records, countries + ChunksBefore(Queried, j) + m)
                        = [type |-> "chunk", owner |-> j, number |-> m]

\* a run with three batches, the last one not full
C15_Witness ==
    /\ ipc = "done"
    /\ Len(RunWrites) = 3
    /\ RecLen(RunWrites[3].segs) < BatchSize
    /\ RecLen(records) > 2 * BatchSize

\* C16: within a run the objectIDs identify the records: a country record has
\* its slug, the chunks of the post with row id ID have ID-c0, ID-c1, ...,
\* numbered from 0 in chunk order for every post, and no two chunk records
\* and no two country records share an objectID.
C16_ObjectIDsUnique ==
    LET ofType(t) == {s \in DOMAIN records : records[s].type = t}
        ids(t) == UNION {ObjectIDs(records[s]) : s \in ofType(t)}
        count(t) == RecLen(SelectSeq(records, LAMBDA seg : seg.type = t))
    IN  /\ \A s \in ofType("country") :
              ObjectIDs(records[s]) = {[slug |-> records[s].owner]}
        /\ \A s \in ofType("chunk") :
              /\ records[s].first = 0
              /\ ObjectIDs(records[s]) =
                    {[ID |-> records[s].owner, c |-> m] : m \in 0..(records[s].n - 1)}
        /\ Cardinality(ids("country")) = count("country")
        /\ Cardinality(ids("chunk")) = count("chunk")

\* the records of two countries and of two posts with several chunks each
C16_Witness ==
    /\ ipc = "upload"
    /\ Len(records) = 4
    /\ records[3].type = "chunk" /\ records[3].n > 1
    /\ records[4].type = "chunk" /\ records[4].n > 1
    /\ [ID |-> records[4].owner, c |-> 0] \in ObjectIDs(records[4])

\* C17: after a run that completes successfully the index 'pages' holds
\* exactly the records built during that run, also when an earlier run
\* aborted after it had uploaded batches to 'pages_tmp'.
C17_FinalIndexIsThisRun ==
    ipc \in {"end", "done"} =>
        LET inIndex == IndexRecords(finalIndex.writes)
            built == UNION {ObjectIDs(records[s]) : s \in DOMAIN records}
        IN  /\ {r.objectID : r \in inIndex} = built
            /\ \A r \in inIndex : r.run = irun

\* a handler that calls updateChart() runs
CallsUpdateChart ==
    \/ MetricPicker \/ CumulativeOption \/ SevenDayOption \/ DailyOption
    \/ PerCapitaOption \/ AlignedOption
    \/ ToggleSelectedCountryCommand \/ ClearSelectionCommand

\* C18: the handler of '7-day rolling average' calls updateChart() before it
\* sets dailyFreq and totalFreq, yet the update it schedules runs only after
\* the handler has returned and observes smoothing = 7, dailyFreq = true and
\* totalFreq = false; updateChart never runs _updateChart inside the handler
\* that calls it.
C18_UpdateRunsAfterHandler ==
    [][/\ SevenDayOption =>
            /\ params'.smoothing = 7 /\ params'.dailyFreq /\ ~params'.totalFreq
            /\ timers' = timers + 1
       /\ CallsUpdateChart =>
            /\ chart' = chart
            /\ suspended' = suspended
            /\ selectionChangeFromBuilder' = selectionChangeFromBuilder
       /\ suspended'.scheduled > suspended.scheduled =>
            /\ timers' = timers - 1
            /\ params' = params
            /\ chart'.title = chartTitle(params')
            /\ chart'.dimensions = dimensions(params')
            /\ chart'.type = chartType(params')]_vars

C18_Witness ==
    /\ params.smoothing = 7 /\ params.dailyFreq /\ ~params.totalFreq
    /\ changes = 1
    /\ timers = 0
    /\ suspended.scheduled = 1
    /\ chart.title = chartTitle(params)
    /\ chart.dimensions = dimensions(params)

\* an option of the frequency picker is chosen
FrequencyPicker == CumulativeOption \/ SevenDayOption \/ DailyOption

\* C19: after a handler of the frequency picker has run, totalFreq and
\* dailyFreq are not both true and smoothing is 7 if the selection was
\* '7-day rolling average' and 0 if it was 'Cumulative' or 'New per day';
\* '7-day rolling average' yields dailyFreq = true and totalFreq = false; the
\* three fields stay as the last selection left them.
C19_FrequencyParams ==
    [][/\ FrequencyPicker => ~(params'.totalFreq /\ params'.dailyFreq)
       /\ CumulativeOption => params'.smoothing = 0
       /\ DailyOption => params'.smoothing = 0
       /\ SevenDayOption =>
            params'.smoothing = 7 /\ params'.dailyFreq = TRUE /\ params'.totalFreq = FALSE
       /\ ~FrequencyPicker =>
            /\ params'.totalFreq = params.totalFreq
            /\ params'.dailyFreq = params.dailyFreq
            /\ params'.smoothing = params.smoothing]_vars

C19_Witness ==
    /\ changes = 2
    /\ timers = 2
    /\ params.smoothing = 7
    /\ params.dailyFreq /\ ~params.totalFreq
    /\ chart.title = chartTitle([params EXCEPT !.smoothing = 0])

\* C20: selectionChangeFromBuilder is true only between the start of a
\* scheduled chart update and the change of the chart's selection which that
\* update causes: whenever no update is pending or in progress the flag is
\* false, also after an update that left selectedEntityCodes as it was, and
\* no selection the user makes in the chart is swallowed.
C20_FlagFalseWhenQuiescent ==
    /\ Quiescent => ~ selectionChangeFromBuilder
    /\ \A i \in 1..Len(events) : events[i].origin = "user" => ~ events[i].ignored

\* C21: the variable set is a grow-only cache: a variable is built only when
\* none is stored under its id, an entry once stored is never replaced or
\* removed, the continents variable 123 is there in every state, and asking
\* for a combination again gives the stored variable without building.
C21_GrowOnlyCache ==
    /\ [](/\ continentsVariableId \in DOMAIN owidVariableSet.numbered
          /\ builds = Cardinality(DOMAIN owidVariableSet.synthetic))
    /\ [][/\ owidVariableSet'.numbered = owidVariableSet.numbered
          /\ \A id \in DOMAIN owidVariableSet.synthetic :
                /\ id \in DOMAIN owidVariableSet'.synthetic
                /\ owidVariableSet'.synthetic[id] = owidVariableSet.synthetic[id]
          /\ builds' - builds =
                Cardinality(DOMAIN owidVariableSet'.synthetic \ DOMAIN owidVariableSet.synthetic)]_vars

\* the variable built first is asked for again after others were built
C21_Witness ==
    /\ changes = 2
    /\ Quiescent
    /\ builds >= 2
    /\ yVariableId(params) \in DOMAIN owidVariableSet.synthetic
    /\ owidVariableSet.synthetic[yVariableId(params)].serial = 1

\* C22: the column new_cases_smoothed is computed at most once, and every y
\* variable that reads it with smoothing = 7 reads values computed with a
\* 7-day window, whatever was selected before.
C22_SmoothedCasesSevenDayWindow ==
    /\ Len(newCasesSmoothed) <= 1
    /\ \A id \in DOMAIN owidVariableSet.synthetic :
          ReadsNewCasesSmoothed(id) /\ id.smoothing = 7 =>
              owidVariableSet.synthetic[id].casesColumn = <<7>>

\* at least one metric flag and at least one of dailyFreq / totalFreq are set
MetricAndFrequency(p) ==
    /\ \E m \in Metrics : constrainedParams(p)[m]
    /\ constrainedParams(p).dailyFreq \/ constrainedParams(p).totalFreq

\* C23: yVariableId returns the id of a variable present in the variable set
\* whenever at least one metric flag and at least one of dailyFreq / totalFreq
\* are true; otherwise it logs 'Error: no variable id generated.' and returns
\* 0 without adding a variable to the variable set.
C23_YVariableIdOrFallback ==
    [][ReadYVariableId =>
          IF MetricAndFrequency(params)
          THEN /\ yVariableId(params) # NoVariableId
               /\ yVariableId(params) \in DOMAIN owidVariableSet'.synthetic
               /\ console' = console
          ELSE /\ yVariableId(params) = NoVariableId
               /\ console' = console + 1
               /\ owidVariableSet' = owidVariableSet
               /\ builds' = builds]_vars

\* yVariableId was read with a metric but no frequency set, and then with
\* days since: one line logged for each, only the deaths source was built
C23_Witness ==
    /\ changes = 2
    /\ console = 2
    /\ params.positiveTestRate /\ ~ params.dailyFreq /\ ~ params.totalFreq
    /\ builds = 2

\* C24: toggleSelectedCountry(code, value) changes the membership of that code
\* only: with value true the code is selected afterwards, with value false it
\* is not, in both cases a second call changes nothing; with value undefined
\* the membership is flipped and a second call restores the selection; every
\* other code stays as it was. clearSelectionCommand leaves the selection
\* empty and changes no other parameter.
C24_ToggleAndClear ==
    [][/\ \A code \in Countries, value \in {"true", "false", "undefined"} :
            toggleSelectedCountryCommand(code, value) =>
                LET before == params.selectedCountryCodes
                    after == params'.selectedCountryCodes
                IN  /\ value = "true" => code \in after
                    /\ value = "false" => code \notin after
                    /\ value \in {"true", "false"} =>
                          toggleSelectedCountry(after, code, value) = after
                    /\ value = "undefined" =>
                          /\ (code \in after) # (code \in before)
                          /\ toggleSelectedCountry(after, code, value) = before
                    /\ \A other \in Countries \ {code} : (other \in after) = (other \in before)
                    /\ params' = [params EXCEPT !.selectedCountryCodes = after]
       /\ ClearSelectionCommand =>
            /\ params'.selectedCountryCodes = {}
            /\ params' = [params EXCEPT !.selectedCountryCodes = {}]]_vars

\* one country of the two was deselected by the command, nothing else was done
C24_Witness ==
    /\ changes = 1
    /\ timers = 1
    /\ ~ chartTouched
    /\ params.selectedCountryCodes = {"USA"}
    /\ chart.selectedData = {}

====
